---- MODULE Spec2Model ----
(***************************************************************************)
(* Model of Fetched_Images.py: the Ubuntu Image Fetcher.                   *)
(*                                                                         *)
(* main() reads one line, collects the URLs in it, creates the save        *)
(* directory and calls download_image(url) for each URL in order.          *)
(* Strings are sequences of one-character strings, so that splitting,      *)
(* stripping, lower-casing, URL parsing and integer parsing are computed   *)
(* character by character as the Python code computes them.  The network   *)
(* and the filesystem are the environment: what requests.get returns,      *)
(* what the stream yields and whether open()/write() raise are chosen      *)
(* nondeterministically.                                                   *)
(***************************************************************************)
EXTENDS Integers, Sequences, FiniteSets, TLC

VARIABLES
    urls_input,   \* main: the line returned by input()
    urls,         \* main: the list of collected URLs
    pc,           \* position of the single thread
    idx,          \* main: 1-based position of the for loop over urls
    aborted,      \* main: "No valid URLs provided. Exiting." was printed
    dirExists,    \* filesystem: SAVE_DIR exists
    files,        \* filesystem: filename in SAVE_DIR -> content (list of chunk sizes)
    response,     \* download_image: headers of the response being processed
    filename,     \* download_image: local variable filename
    chunks,       \* download_image: chunks yielded so far by iter_content
    log,          \* console: one record per finished download_image call
    cur,          \* history of the running download_image call
    owner,        \* history: filename -> index of the call that opened it
    mkdirs,       \* history: number of os.makedirs calls
    gets,         \* history: number of requests.get calls
    files0,       \* history: files at program start
    dir0          \* history: dirExists at program start

vars == <<urls_input, urls, pc, idx, aborted, dirExists, files, response,
          filename, chunks, log, cur, owner, mkdirs, gets, files0, dir0>>

----------------------------------------------------------------------------
(* Bounds of the model *)

\* most comma-separated pieces in an input line of the pipeline
MaxPieces == 2
\* most chunks a response stream yields before it ends or fails
MaxChunks == 1
\* longest raw line of the input-collector specification
MaxLen == 5

----------------------------------------------------------------------------
(* Characters and strings *)

Upper == <<"A","B","C","D","E","F","G","H","I","J","K","L","M",
           "N","O","P","Q","R","S","T","U","V","W","X","Y","Z">>
Lower == <<"a","b","c","d","e","f","g","h","i","j","k","l","m",
           "n","o","p","q","r","s","t","u","v","w","x","y","z">>
Digits == <<"0","1","2","3","4","5","6","7","8","9">>

Range(s) == {s[i] : i \in DOMAIN s}

\* str.isspace for the characters of the model
Whitespace == {" ", "\t"}

\* str.lower() of one character
LowerOf == [c \in {Upper[i] : i \in DOMAIN Upper} |->
               Lower[CHOOSE i \in DOMAIN Upper : Upper[i] = c]]
LowerChar(c) == IF c \in DOMAIN LowerOf THEN LowerOf[c] ELSE c

\* str.lower()
ToLower(s) == [i \in DOMAIN s |-> LowerChar(s[i])]

\* str.startswith(prefix)
StartsWith(s, prefix) ==
    /\ Len(s) >= Len(prefix)
    /\ SubSeq(s, 1, Len(prefix)) = prefix

\* str.find(c, start): least index >= start holding a character of cs, 0 if none
RECURSIVE Find(_, _, _)
Find(s, cs, start) ==
    IF start > Len(s) THEN 0
    ELSE IF s[start] \in cs THEN start
    ELSE Find(s, cs, start + 1)

\* greatest index <= end holding a character of cs, 0 if none
RECURSIVE FindLast(_, _, _)
FindLast(s, cs, end) ==
    IF end < 1 THEN 0
    ELSE IF s[end] \in cs THEN end
    ELSE FindLast(s, cs, end - 1)

\* str.rfind(c): greatest index holding c, 0 if none
RFind(s, c) == FindLast(s, {c}, Len(s))

\* s[i:] with a 1-based i
From(s, i) == SubSeq(s, i, Len(s))

\* the characters that are not whitespace
RECURSIVE FirstBlack(_, _)
FirstBlack(s, i) ==
    IF i > Len(s) THEN 0
    ELSE IF s[i] \notin Whitespace THEN i
    ELSE FirstBlack(s, i + 1)

RECURSIVE LastBlack(_, _)
LastBlack(s, i) ==
    IF i < 1 THEN 0
    ELSE IF s[i] \notin Whitespace THEN i
    ELSE LastBlack(s, i - 1)

\* str.strip(): leading and trailing whitespace removed
Strip(s) ==
    IF FirstBlack(s, 1) = 0 THEN <<>>
    ELSE SubSeq(s, FirstBlack(s, 1), LastBlack(s, Len(s)))

\* str.split(","): the pieces between the commas, empty pieces kept; the scan
\* is at position i of a piece that began at position begin
RECURSIVE SplitScan(_, _, _)
SplitScan(s, i, begin) ==
    IF i > Len(s) THEN <<SubSeq(s, begin, Len(s))>>
    ELSE IF s[i] = "," THEN <<SubSeq(s, begin, i - 1)>> \o SplitScan(s, i + 1, i + 1)
    ELSE SplitScan(s, i + 1, begin)

SplitComma(s) == SplitScan(s, 1, 1)

\* mutant: the pieces are filtered but not trimmed
CollectUrls_unstripped(line) ==
    SelectSeq(SplitComma(line), LAMBDA u : Strip(u) # <<>>)

\* main: urls = [url.strip() for url in urls_input.split(",") if url.strip()]
CollectUrls(line) ==
    LET pieces   == SplitComma(line)
        stripped == [i \in DOMAIN pieces |-> Strip(pieces[i])]
    IN  SelectSeq(stripped, LAMBDA u : u # <<>>)

----------------------------------------------------------------------------
(* get_filename_from_url *)

IsAlpha(c) == c \in Range(Upper) \cup Range(Lower)

\* urllib.parse.scheme_chars
SchemeChars == Range(Upper) \cup Range(Lower) \cup Range(Digits) \cup {"+", "-", "."}

\* urlsplit: the URL has a scheme when a ":" follows a run of scheme characters
\* that starts with a letter
HasScheme(url) ==
    LET i == Find(url, {":"}, 1)
    IN  /\ i > 1
        /\ IsAlpha(url[1])
        /\ \A j \in 1..(i-1) : url[j] \in SchemeChars

UrlScheme(url) ==
    IF HasScheme(url) THEN ToLower(SubSeq(url, 1, Find(url, {":"}, 1) - 1)) ELSE <<>>

AfterScheme(url) ==
    IF HasScheme(url) THEN From(url, Find(url, {":"}, 1) + 1) ELSE url

\* urlsplit / _splitnetloc: "//netloc" runs to the first of "/", "?", "#"
AfterNetloc(rest) ==
    IF StartsWith(rest, <<"/", "/">>)
    THEN LET d == Find(rest, {"/", "?", "#"}, 3)
         IN  IF d = 0 THEN <<>> ELSE From(rest, d)
    ELSE rest

\* s.split(c, 1)[0]
Before(s, c) ==
    LET i == Find(s, {c}, 1)
    IN  IF i = 0 THEN s ELSE SubSeq(s, 1, i-1)

\* urllib.parse.uses_params, the schemes of the model
UsesParams(scheme) ==
    scheme \in {<<>>, <<"h","t","t","p">>, <<"h","t","t","p","s">>, <<"f","t","p">>}

\* urlparse / _splitparams: ";params" is cut from the last path segment
SplitParams(path) ==
    LET slash == RFind(path, "/")
        i     == IF slash > 0 THEN Find(path, {";"}, slash) ELSE Find(path, {";"}, 1)
    IN  IF i = 0 THEN path ELSE SubSeq(path, 1, i-1)

\* urlparse(url).path
UrlPath(url) ==
    LET p == Before(Before(AfterNetloc(AfterScheme(url)), "#"), "?")
    IN  IF UsesParams(UrlScheme(url)) /\ ";" \in Range(p) THEN SplitParams(p) ELSE p

\* os.path.basename: what follows the last "/"
Basename(path) == From(path, RFind(path, "/") + 1)

\* code points of the characters of the model, for the digest
CharTable == Lower \o Upper \o Digits \o <<":", "/", ".", "?", "#", ";", " ", ",", "-", "+", "_">>

CharCode(c) ==
    IF \E i \in DOMAIN CharTable : CharTable[i] = c
    THEN CHOOSE i \in DOMAIN CharTable : CharTable[i] = c
    ELSE 0

HexDigits == <<"0","1","2","3","4","5","6","7","8","9","a","b","c","d","e","f">>

\* hashlib.md5(url.encode()).hexdigest(), abstracted to an 8-bit digest of the
\* characters rendered as two hex digits: a deterministic function of the URL
RECURSIVE Digest(_, _)
Digest(s, n) ==
    IF n = 0 THEN 7 ELSE (Digest(s, n - 1) * 31 + CharCode(s[n])) % 256

Md5Hex(url) ==
    <<HexDigits[(Digest(url, Len(url)) \div 16) + 1],
      HexDigits[(Digest(url, Len(url)) % 16) + 1]>>

JpgExt == <<".", "j", "p", "g">>

get_filename_from_url(url) ==
    LET name == Basename(UrlPath(url))
    IN  IF name = <<>> THEN Md5Hex(url) \o JpgExt ELSE name

----------------------------------------------------------------------------
(* validate_response_headers *)

ImagePrefix == <<"i","m","a","g","e","/">>

\* "Limit file size to 10 MB": 10 * 1024 * 1024
MaxContentLength == 10485760

DigitValue(c) == (CHOOSE i \in DOMAIN Digits : Digits[i] = c) - 1

\* int(str): surrounding whitespace, an optional sign, then digits which single
\* underscores may separate
IntBody(s) ==
    LET t == Strip(s)
    IN  IF t # <<>> /\ t[1] \in {"+", "-"} THEN Tail(t) ELSE t

IntValid(s) ==
    LET b == IntBody(s)
    IN  /\ b # <<>>
        /\ \A i \in DOMAIN b : b[i] \in Range(Digits) \cup {"_"}
        /\ b[1] # "_" /\ b[Len(b)] # "_"
        /\ \A i \in 1..(Len(b)-1) : ~(b[i] = "_" /\ b[i+1] = "_")

\* the value of the first n characters of a run of digits and underscores
RECURSIVE DigitsValue(_, _)
DigitsValue(b, n) ==
    IF n = 0 THEN 0
    ELSE IF b[n] = "_" THEN DigitsValue(b, n - 1)
    ELSE DigitsValue(b, n - 1) * 10 + DigitValue(b[n])

IntValue(s) ==
    IF Strip(s)[1] = "-"
    THEN 0 - DigitsValue(IntBody(s), Len(IntBody(s)))
    ELSE DigitsValue(IntBody(s), Len(IntBody(s)))

\* response.headers.get('Content-Type', '').lower()
ContentType(resp) == ToLower(IF resp.hasType THEN resp.ctype ELSE <<>>)

\* mutant: the size test is >= instead of >
ValidateOutcome_at_limit(resp) ==
    IF ~StartsWith(ContentType(resp), ImagePrefix) THEN "invalid_type"
    ELSE IF resp.hasLen /\ resp.clen # <<>>
         THEN IF ~IntValid(resp.clen) THEN "invalid_literal"
              ELSE IF IntValue(resp.clen) >= MaxContentLength THEN "too_large"
              ELSE "ok"
         ELSE "ok"

\* the outcome of validate_response_headers: "ok" when it returns, else the
\* ValueError it raises
ValidateOutcome(resp) ==
    IF ~StartsWith(ContentType(resp), ImagePrefix) THEN "invalid_type"
    ELSE IF resp.hasLen /\ resp.clen # <<>>
         THEN IF ~IntValid(resp.clen) THEN "invalid_literal"
              ELSE IF IntValue(resp.clen) > MaxContentLength THEN "too_large"
              ELSE "ok"
         ELSE "ok"

\* mutant: the validation accepts every response
validate_accepts_all(resp) == TRUE

validate_response_headers(resp) == ValidateOutcome(resp) = "ok"

----------------------------------------------------------------------------
(* Inputs and environment of the model *)

\* "http://h/"
UrlRoot == <<"h","t","t","p",":","/","/","h","/">>
\* "http://h/a"
UrlA == UrlRoot \o <<"a">>
\* " http://g/a?b": another URL with the path basename "a", written after a blank
UrlAQ == <<" ","h","t","t","p",":","/","/","g","/","a","?","b">>
\* "http://h/.."
UrlDots == UrlRoot \o <<".", ".">>

\* the pieces an input line of the pipeline is made of
Pieces == {<<>>, <<" ">>, UrlA, UrlAQ, UrlRoot, UrlDots}

RECURSIVE JoinComma(_)
JoinComma(ps) ==
    IF Len(ps) = 1 THEN ps[1] ELSE ps[1] \o <<",">> \o JoinComma(Tail(ps))

\* the lines input() may return: 1..MaxPieces pieces joined by commas
InputLines ==
    UNION {{JoinComma(ps) : ps \in [1..n -> Pieces]} : n \in 1..MaxPieces}

\* the entries "." and ".." of every directory
DotNames == {<<".">>, <<".", ".">>}

\* the URLs of the model, and get_filename_from_url tabulated over them (the
\* actions look the filename up here, so that it is computed once per URL)
Urls == {Strip(p) : p \in Pieces} \ {<<>>}
FilenameOf == [u \in Urls |-> get_filename_from_url(u)]

\* the names a file of SAVE_DIR may have before the run
FileNames == {FilenameOf[u] : u \in Urls} \ DotNames

\* content of a file that exists before the run (chunk sizes)
OldContent == <<1>>

NoFiles == [n \in {} |-> <<>>]
NoOwner == [n \in {} |-> 0]

\* the header values a server may send: <<present, value>>
ContentTypes ==
    { <<FALSE, <<>>>>,
      <<TRUE, <<"i","m","a","g","e","/","p","n","g">>>>,
      <<TRUE, <<"I","m","a","g","e","/","P","N","G">>>>,
      <<TRUE, <<"t","e","x","t","/","h","t","m","l">>>>,
      <<TRUE, <<"i","m","a","g","e">>>> }

ContentLengths ==
    { <<FALSE, <<>>>>,
      <<TRUE, <<>>>>,
      <<TRUE, <<"1","0","4","8","5","7","6","0">>>>,
      <<TRUE, <<"1","0","4","8","5","7","6","1">>>>,
      <<TRUE, <<"1","1","0","0","0","0","0","0">>>>,
      <<TRUE, <<"a","b","c">>>> }

Headers ==
    { [hasType |-> t[1], ctype |-> t[2], hasLen |-> l[1], clen |-> l[2]] :
        t \in ContentTypes, l \in ContentLengths }

NoResponse == [hasType |-> FALSE, ctype |-> <<>>, hasLen |-> FALSE, clen |-> <<>>]

\* validate_response_headers tabulated over the headers of the model (the
\* action looks the verdict up here, so that it is computed once per header set)
HeadersPass == [h \in Headers |-> validate_response_headers(h)]

\* iter_content(chunk_size=8192)
ChunkSize == 8192

NoCall == [existed |-> FALSE, got |-> FALSE, valid |-> FALSE, opened |-> FALSE, wrote |-> 0]

----------------------------------------------------------------------------
(* The filesystem *)

\* os.path.exists(os.path.join(SAVE_DIR, name))
PathExists(name) == dirExists /\ (name \in DotNames \/ name \in DOMAIN files)

\* mutant: the duplicate check never finds the file
file_never_exists(name) == FALSE

file_already_exists(name) == PathExists(name)

\* open(filepath, 'wb'): the file is created, or truncated if it exists
OpenForWrite(name) == [n \in DOMAIN files \cup {name} |-> IF n = name THEN <<>> ELSE files[n]]

\* f.write(chunk)
WriteChunk(name, size) == [files EXCEPT ![name] = Append(@, size)]

----------------------------------------------------------------------------
(* download_image: how a call ends *)

\* mutant: the final "except Exception" clause is missing
except_clause_no_catch_all(exc) ==
    IF exc = "RequestException" THEN "connection"
    ELSE IF exc = "ValueError" THEN "skipping"
    ELSE "propagate"

\* the except clauses of download_image, in their order
except_clause(exc) ==
    IF exc = "RequestException" THEN "connection"
    ELSE IF exc = "ValueError" THEN "skipping"
    ELSE "unexpected"

\* download_image returns having printed a line of kind `kind`; main's loop
\* moves to the next URL, and past the last one prints the closing line
Return(kind, c) ==
    /\ log' = Append(log, [url |-> urls[idx], kind |-> kind, existed |-> c.existed,
                           got |-> c.got, valid |-> c.valid, opened |-> c.opened,
                           wrote |-> c.wrote])
    /\ idx' = idx + 1
    /\ pc' = IF idx = Len(urls) THEN "done" ELSE "get"
    /\ response' = NoResponse
    /\ filename' = <<>>
    /\ chunks' = 0
    /\ cur' = NoCall

\* an exception raised inside the try block
Raise(exc, c) ==
    IF except_clause(exc) = "propagate"
    THEN /\ pc' = "crashed"
         /\ cur' = c
         /\ UNCHANGED <<log, idx, response, filename, chunks>>
    ELSE Return(except_clause(exc), c)

----------------------------------------------------------------------------
(* The program *)

Init ==
    /\ urls_input \in InputLines
    /\ urls = <<>>
    /\ pc = "start"
    /\ idx = 0
    /\ aborted = FALSE
    /\ dirExists \in BOOLEAN
    /\ files \in IF dirExists
                 THEN {NoFiles} \cup {[n \in {m} |-> OldContent] : m \in FileNames}
                 ELSE {NoFiles}
    /\ response = NoResponse
    /\ filename = <<>>
    /\ chunks = 0
    /\ log = <<>>
    /\ cur = NoCall
    /\ owner = NoOwner
    /\ mkdirs = 0
    /\ gets = 0
    /\ files0 = files
    /\ dir0 = dirExists

\* mutant: the directory is never created
create_save_directory_skipped == UNCHANGED <<dirExists, mkdirs, files>>

\* create_save_directory: os.makedirs(SAVE_DIR, exist_ok=True)
create_save_directory ==
    /\ dirExists' = TRUE
    /\ mkdirs' = mkdirs + 1
    /\ UNCHANGED files

\* mutant: the directory is created before the list is tested for emptiness
Main_Start_mkdir_first ==
    /\ pc = "start"
    /\ urls' = CollectUrls(urls_input)
    /\ create_save_directory
    /\ IF urls' = <<>>
       THEN /\ aborted' = TRUE
            /\ pc' = "done"
            /\ UNCHANGED idx
       ELSE /\ idx' = 1
            /\ pc' = "get"
            /\ UNCHANGED aborted
    /\ UNCHANGED <<urls_input, response, filename, chunks, log, cur, owner,
                   gets, files0, dir0>>

\* main, up to the first download_image call
Main_Start ==
    /\ pc = "start"
    /\ urls' = CollectUrls(urls_input)
    /\ IF urls' = <<>>
       THEN /\ aborted' = TRUE
            /\ pc' = "done"
            /\ UNCHANGED <<idx, dirExists, mkdirs, files>>
       ELSE /\ create_save_directory
            /\ idx' = 1
            /\ pc' = "get"
            /\ UNCHANGED aborted
    /\ UNCHANGED <<urls_input, response, filename, chunks, log, cur, owner,
                   gets, files0, dir0>>

\* download_image: requests.get(url, timeout=10, stream=True) and
\* response.raise_for_status()
Get ==
    /\ pc = "get"
    /\ gets' = gets + 1
    /\ LET c == [cur EXCEPT !.existed = PathExists(FilenameOf[urls[idx]])]
       IN  \/ Raise("RequestException", c)
           \/ /\ \E h \in Headers : response' = h
              /\ cur' = [c EXCEPT !.got = TRUE]
              /\ pc' = "validate"
              /\ UNCHANGED <<log, idx, filename, chunks>>
    /\ UNCHANGED <<urls_input, urls, aborted, dirExists, files, owner, mkdirs,
                   files0, dir0>>

\* download_image: validate_response_headers(response)
Validate ==
    /\ pc = "validate"
    /\ IF HeadersPass[response]
       THEN /\ pc' = "check"
            /\ cur' = [cur EXCEPT !.valid = TRUE]
            /\ UNCHANGED <<log, idx, response, filename, chunks>>
       ELSE Raise("ValueError", cur)
    /\ UNCHANGED <<urls_input, urls, aborted, dirExists, files, owner, mkdirs,
                   gets, files0, dir0>>

\* mutant: the call goes on to open the file whether or not it exists
Check_no_return ==
    /\ pc = "check"
    /\ filename' = FilenameOf[urls[idx]]
    /\ pc' = "open"
    /\ UNCHANGED <<log, idx, response, chunks, cur>>
    /\ UNCHANGED <<urls_input, urls, aborted, dirExists, files, owner, mkdirs,
                   gets, files0, dir0>>

\* download_image: the filename, the path and the duplicate check
Check ==
    /\ pc = "check"
    /\ IF file_already_exists(FilenameOf[urls[idx]])
       THEN Return("duplicate", cur)
       ELSE /\ filename' = FilenameOf[urls[idx]]
            /\ pc' = "open"
            /\ UNCHANGED <<log, idx, response, chunks, cur>>
    /\ UNCHANGED <<urls_input, urls, aborted, dirExists, files, owner, mkdirs,
                   gets, files0, dir0>>

\* download_image: open(filepath, 'wb'), which may raise OSError
Open ==
    /\ pc = "open"
    /\ \/ /\ files' = OpenForWrite(filename)
          /\ owner' = [n \in DOMAIN owner \cup {filename} |->
                          IF n = filename THEN idx ELSE owner[n]]
          /\ cur' = [cur EXCEPT !.opened = TRUE]
          /\ pc' = "stream"
          /\ UNCHANGED <<log, idx, response, filename, chunks>>
       \/ /\ Raise("OSError", cur)
          /\ UNCHANGED <<files, owner>>
    /\ UNCHANGED <<urls_input, urls, aborted, dirExists, mkdirs, gets, files0, dir0>>

\* download_image: one turn of the loop over response.iter_content; the
\* stream yields a chunk that is written when it is not empty
StreamChunk ==
    /\ pc = "stream"
    /\ chunks < MaxChunks
    /\ \E size \in {0, ChunkSize} :
          /\ chunks' = chunks + 1
          /\ IF size # 0
             THEN /\ files' = WriteChunk(filename, size)
                  /\ cur' = [cur EXCEPT !.wrote = @ + 1]
             ELSE UNCHANGED <<files, cur>>
    /\ UNCHANGED <<urls_input, urls, pc, idx, aborted, dirExists, response,
                   filename, log, owner, mkdirs, gets, files0, dir0>>

\* download_image: the stream ends, the with block closes the file and the
\* two success lines are printed
StreamEnd ==
    /\ pc = "stream"
    /\ Return("success", cur)
    /\ UNCHANGED <<urls_input, urls, aborted, dirExists, files, owner, mkdirs,
                   gets, files0, dir0>>

\* mutant: a failed download removes its partial file
StreamFails_cleanup ==
    /\ pc = "stream"
    /\ \E exc \in {"RequestException", "OSError"} : Raise(exc, cur)
    /\ files' = [n \in DOMAIN files \ {filename} |-> files[n]]
    /\ owner' = [n \in DOMAIN owner \ {filename} |-> owner[n]]
    /\ UNCHANGED <<urls_input, urls, aborted, dirExists, mkdirs, gets, files0, dir0>>

\* download_image: the stream breaks (a RequestException out of iter_content) or
\* f.write raises OSError; the with block closes the file, which stays on disk
StreamFails ==
    /\ pc = "stream"
    /\ \E exc \in {"RequestException", "OSError"} : Raise(exc, cur)
    /\ UNCHANGED <<urls_input, urls, aborted, dirExists, files, owner, mkdirs,
                   gets, files0, dir0>>

Next ==
    \/ Main_Start
    \/ Get
    \/ Validate
    \/ Check
    \/ Open
    \/ StreamChunk
    \/ StreamEnd
    \/ StreamFails

Spec == Init /\ [][Next]_vars

----------------------------------------------------------------------------
(* The input collector alone: main's list comprehension applied to every   *)
(* line of at most MaxLen characters                                       *)

CollectAlphabet == {"a", "b", ",", " "}

RawLines == UNION {[1..n -> CollectAlphabet] : n \in 0..MaxLen}

InitCollect ==
    /\ urls_input \in RawLines
    /\ urls = <<>>
    /\ pc = "start"
    /\ idx = 0
    /\ aborted = FALSE
    /\ dirExists = FALSE
    /\ files = NoFiles
    /\ response = NoResponse
    /\ filename = <<>>
    /\ chunks = 0
    /\ log = <<>>
    /\ cur = NoCall
    /\ owner = NoOwner
    /\ mkdirs = 0
    /\ gets = 0
    /\ files0 = files
    /\ dir0 = dirExists

\* main: line 83 alone
Collect_Only ==
    /\ pc = "start"
    /\ urls' = CollectUrls(urls_input)
    /\ pc' = "collected"
    /\ UNCHANGED <<urls_input, idx, aborted, dirExists, files, response, filename,
                   chunks, log, cur, owner, mkdirs, gets, files0, dir0>>

NextCollect == Collect_Only

SpecCollect == InitCollect /\ [][NextCollect]_vars

----------------------------------------------------------------------------
(* Vocabulary of the properties *)

\* the Destination Filename of the i-th finished call
NameAt(i) == FilenameOf[log[i].url]

Running == pc \in {"get", "validate", "check", "open", "stream"}

ErrorKinds == {"connection", "skipping", "unexpected"}

\* the lowercased declared content type starts with "image/"
TypeIsImage(resp) ==
    /\ resp.hasType
    /\ Len(resp.ctype) >= Len(ImagePrefix)
    /\ \A i \in DOMAIN ImagePrefix : LowerChar(resp.ctype[i]) = ImagePrefix[i]

\* Content-Length is present and its integer value is over 10 * 1024 * 1024
DeclaredTooLarge(resp) ==
    /\ resp.hasLen
    /\ IntValid(resp.clen)
    /\ IntValue(resp.clen) > 10 * 1024 * 1024

\* Content-Length is present, not empty and not the text of an integer
DeclaredMalformed(resp) ==
    /\ resp.hasLen
    /\ resp.clen # <<>>
    /\ ~IntValid(resp.clen)

----------------------------------------------------------------------------
(* C1 *)

\* C1: a file is never overwritten.  Once an entry exists at a destination
\* path, whether it was there before the run or was created earlier in it, no
\* later download_image call opens it or writes to it: in every step, a file
\* that exists stays, keeps the call that opened it, and its content changes
\* only by a write of that very call while it streams.
C1_NeverOverwritten ==
    [][\A n \in DOMAIN files :
          /\ n \in DOMAIN files'
          /\ (n \in DOMAIN owner) = (n \in DOMAIN owner')
          /\ n \in DOMAIN owner => owner'[n] = owner[n]
          /\ files'[n] # files[n] =>
                 /\ pc = "stream" /\ filename = n
                 /\ n \in DOMAIN owner /\ owner[n] = idx]_vars

\* a call wrote a file and a later call for the same name was skipped
C1_Witness ==
    \E i, j \in DOMAIN log :
        /\ i < j
        /\ log[i].kind = "success" /\ log[i].wrote > 0
        /\ NameAt(j) = NameAt(i)
        /\ log[j].kind = "duplicate"
        /\ files[NameAt(i)] = <<ChunkSize>>

----------------------------------------------------------------------------
(* C2 *)

\* C2: bytes are written only after the metadata validation succeeds.  The
\* call that has opened its destination file has a fetched response whose
\* declared type is an image and whose declared size is neither over the cap
\* nor malformed; and a finished call whose fetch failed or whose validation
\* failed opened nothing, wrote nothing and owns no file.
C2_WriteAfterValidation ==
    /\ cur.opened =>
           /\ cur.got /\ cur.valid
           /\ TypeIsImage(response)
           /\ ~DeclaredTooLarge(response)
           /\ ~DeclaredMalformed(response)
    /\ pc \in {"open", "stream"} => cur.got /\ cur.valid
    /\ \A i \in DOMAIN log :
           ~(log[i].got /\ log[i].valid) =>
               /\ ~log[i].opened
               /\ log[i].wrote = 0
               /\ log[i].kind \in {"connection", "skipping"}
               /\ \A n \in DOMAIN owner : owner[n] # i

\* a response with a bad declared type was rejected where no file existed, and
\* none exists afterwards
C2_Witness ==
    \E i \in DOMAIN log :
        /\ log[i].got /\ ~log[i].valid
        /\ log[i].kind = "skipping"
        /\ ~log[i].existed
        /\ NameAt(i) \notin DOMAIN files

----------------------------------------------------------------------------
(* C3 *)

\* the finished calls are the URLs of the input, in order, one call and one
\* fetch each, and no exception has left download_image
CallsInOrder ==
    /\ pc # "crashed"
    /\ Len(log) <= Len(urls)
    /\ \A i \in DOMAIN log : log[i].url = urls[i]
    /\ Running => idx = Len(log) + 1 /\ idx <= Len(urls)
    /\ gets = Len(log) + (IF pc \in {"validate", "check", "open", "stream"} THEN 1 ELSE 0)
    /\ pc = "done" /\ ~aborted => Len(log) = Len(urls)
    /\ pc \in {"start", "done"} \/ ENABLED Next

\* what is left of the run: the URLs not yet finished, then the steps left of
\* the running call
StepsLeft ==
    (Len(urls) - Len(log)) * (MaxChunks + 6)
        + CASE pc = "get"      -> MaxChunks + 5
            [] pc = "validate" -> MaxChunks + 4
            [] pc = "check"    -> MaxChunks + 3
            [] pc = "open"     -> MaxChunks + 2
            [] pc = "stream"   -> MaxChunks - chunks + 1
            [] OTHER           -> 0

\* C3: per-URL failure isolation.  The finished calls are the URLs of the
\* input, in order, one call and one fetch each; no failure leaves
\* download_image; whatever the outcome of a URL the run can take a next step
\* until it is done, every step brings the end nearer, and at the end every
\* URL has been attempted.
C3_FailureIsolation ==
    /\ []CallsInOrder
    /\ [][pc # "start" => StepsLeft' < StepsLeft]_vars

\* a run ended in which the first URL failed with an unexpected error and the
\* second URL was then fetched and saved
C3_Witness ==
    /\ pc = "done"
    /\ Len(log) = 2
    /\ log[1].kind = "unexpected"
    /\ log[2].kind = "success"

----------------------------------------------------------------------------
(* C4 *)

\* the line holds nothing but whitespace and commas
BlankLine(line) == \A i \in DOMAIN line : line[i] \in Whitespace \cup {","}

\* C4: an input line with no non-empty trimmed piece ends the run with the
\* no-valid-URLs message before any I/O: the directory is not created, nothing
\* is fetched, no file is written.
C4_EmptyInputAborts ==
    (pc # "start" /\ BlankLine(urls_input)) =>
        /\ pc = "done"
        /\ aborted
        /\ urls = <<>>
        /\ mkdirs = 0
        /\ dirExists = dir0
        /\ gets = 0
        /\ files = files0
        /\ log = <<>>

\* the run ended on a line of a blank and a comma, with no directory
C4_Witness ==
    /\ pc = "done"
    /\ aborted
    /\ urls_input = <<" ", ",">>
    /\ ~dirExists

----------------------------------------------------------------------------
(* C5 *)

\* C5 as stated: a URL whose destination path exists is reported as
\* duplicate-skip whatever the response to the fetch, with no write.
C5_AsClaimed ==
    \A i \in DOMAIN log :
        log[i].existed => log[i].kind = "duplicate" /\ log[i].wrote = 0

\* C5, amended: a URL whose destination path exists performs no write and
\* opens nothing; it is reported as duplicate-skip exactly when its fetch and
\* its header validation succeeded, and as the connection or validation error
\* otherwise.
C5_ExistingPathNoWrite ==
    /\ cur.existed => ~cur.opened /\ cur.wrote = 0 /\ pc \notin {"open", "stream"}
    /\ \A i \in DOMAIN log :
           log[i].existed =>
               /\ ~log[i].opened
               /\ log[i].wrote = 0
               /\ (log[i].kind = "duplicate") = (log[i].got /\ log[i].valid)
               /\ ~log[i].got => log[i].kind = "connection"
               /\ (log[i].got /\ ~log[i].valid) => log[i].kind = "skipping"

\* a file there before the run was met by a valid response and left as it was
C5_Witness ==
    \E i \in DOMAIN log :
        /\ log[i].existed
        /\ NameAt(i) \in DOMAIN files0
        /\ log[i].kind = "duplicate"
        /\ files[NameAt(i)] = OldContent

----------------------------------------------------------------------------
(* C6 *)

\* the finished calls whose Destination Filename is that of call i
SameName(i) == {j \in DOMAIN log : NameAt(j) = NameAt(i)}

First(S) == CHOOSE i \in S : \A j \in S : i <= j

\* C6: filename-based deduplication within one run.  Starting from an empty
\* output directory, when several URLs of the input resolve to one filename
\* and each of them gets a valid image response that streams to its end, the
\* first occurrence is reported as success, every later one as duplicate-skip,
\* and the directory ends with the file of that name.
C6_AsClaimed ==
    (pc = "done" /\ files0 = NoFiles) =>
        \A i \in DOMAIN log :
            ( /\ Cardinality(SameName(i)) > 1
              /\ \A j \in SameName(i) :
                     log[j].got /\ log[j].valid /\ log[j].kind \notin ErrorKinds )
            => /\ log[First(SameName(i))].kind = "success"
               /\ \A j \in SameName(i) \ {First(SameName(i))} : log[j].kind = "duplicate"
               /\ NameAt(i) \in DOMAIN files

----------------------------------------------------------------------------
(* C7 *)

\* C7: the output directory is created before the first fetch, so it exists
\* wherever a fetch, an existence check or a write happens; os.makedirs is
\* called exactly when the collected list is not empty, once; and a directory
\* that is already there is left as it is, with its files.
C7_DirectoryBeforeFetch ==
    /\ Running => dirExists
    /\ gets > 0 => mkdirs = 1
    /\ DOMAIN owner # {} => dirExists
    /\ pc # "start" =>
           /\ (mkdirs = 1) = (urls # <<>>)
           /\ (mkdirs = 0) = (urls = <<>>)
           /\ dirExists = (dir0 \/ urls # <<>>)
    /\ (pc = "get" /\ idx = 1) => files = files0 /\ gets = 0

\* a file is being written into a directory that the run created
C7_Witness ==
    /\ pc = "stream"
    /\ ~dir0
    /\ dirExists
    /\ mkdirs = 1

----------------------------------------------------------------------------
(* C8 *)

\* C8 as stated: the validation fails exactly when the declared type is not
\* an image or the declared length is an integer over the cap.
C8_AsClaimed ==
    pc = "validate" =>
        (~validate_response_headers(response))
            = (~TypeIsImage(response) \/ DeclaredTooLarge(response))

\* C8, amended: the validation fails exactly when the lowercased Content-Type
\* does not start with "image/" (a missing one included), or Content-Length is
\* present and not empty and either is not the text of an integer or has an
\* integer value strictly over 10 * 1024 * 1024.  A declared length of exactly
\* 10485760 passes, an absent Content-Length passes, and the content-type
\* failure is the one raised when both fail.
C8_Validator ==
    pc = "validate" =>
        /\ (~validate_response_headers(response))
               = \/ ~TypeIsImage(response)
                 \/ DeclaredTooLarge(response)
                 \/ DeclaredMalformed(response)
        /\ ~TypeIsImage(response) => ValidateOutcome(response) = "invalid_type"
        /\ (TypeIsImage(response) /\ DeclaredTooLarge(response))
               => ValidateOutcome(response) = "too_large"
        /\ (TypeIsImage(response) /\ response.hasLen
              /\ response.clen = <<"1","0","4","8","5","7","6","0">>)
               => validate_response_headers(response)
        /\ (TypeIsImage(response) /\ ~response.hasLen)
               => validate_response_headers(response)

\* an image response whose Content-Length is not a number is being rejected
C8_Witness ==
    /\ pc = "validate"
    /\ TypeIsImage(response)
    /\ response.hasLen
    /\ response.clen = <<"a","b","c">>
    /\ ~validate_response_headers(response)

----------------------------------------------------------------------------
(* C9 *)

Min(S) == CHOOSE i \in S : \A j \in S : i <= j
Max(S) == CHOOSE i \in S : \A j \in S : i >= j

\* the positions that delimit the pieces: the commas and the two ends
Cuts(line) == {0, Len(line) + 1} \cup {i \in DOMAIN line : line[i] = ","}

\* a piece lies strictly between two neighbouring cuts
Segments(line) ==
    {seg \in Cuts(line) \X Cuts(line) :
        /\ seg[1] < seg[2]
        /\ ~\E c \in Cuts(line) : seg[1] < c /\ c < seg[2]}

\* the positions of a piece that hold no whitespace
Black(line, seg) == {i \in (seg[1] + 1)..(seg[2] - 1) : line[i] \notin Whitespace}

\* the pieces that are not empty once trimmed
Kept(line) == {seg \in Segments(line) : Black(line, seg) # {}}

Trimmed(line, seg) == SubSeq(line, Min(Black(line, seg)), Max(Black(line, seg)))

Rank(line, seg) == Cardinality({t \in Kept(line) : t[1] <= seg[1]})

\* C9: the collected URL sequence is exactly the comma-delimited pieces that
\* are not empty after trimming, each trimmed, in their order in the line and
\* with duplicates kept; its length is the number of such pieces.
C9_Collector ==
    pc = "collected" =>
        /\ Len(urls) = Cardinality(Kept(urls_input))
        /\ \A seg \in Kept(urls_input) :
               urls[Rank(urls_input, seg)] = Trimmed(urls_input, seg)

\* a line with a padded piece, an empty piece and a repeated piece was collected
C9_Witness ==
    /\ pc = "collected"
    /\ urls_input = <<" ", "a", ",", ",", "a">>
    /\ urls = << <<"a">>, <<"a">> >>

----------------------------------------------------------------------------
(* C10 *)

\* C10 as stated: after a call failed having opened its file, every later URL
\* of the same destination path is reported as duplicate-skip, with no write.
C10_AsClaimed ==
    \A i, j \in DOMAIN log :
        ( /\ i < j
          /\ log[i].opened /\ log[i].kind # "success"
          /\ NameAt(j) = NameAt(i) )
        => log[j].kind = "duplicate" /\ log[j].wrote = 0

\* C10, amended: when a call fails after it has opened its destination file,
\* the failure is reported as an error for that URL and the file stays on disk
\* with exactly the chunks that call wrote; no later call of the run for the
\* same path opens or writes it, and such a call is reported as duplicate-skip
\* exactly when its own fetch and validation succeed (as their error otherwise).
C10_PartialFilePermanent ==
    \A i \in DOMAIN log :
        (log[i].opened /\ log[i].kind # "success") =>
            /\ log[i].kind \in {"connection", "unexpected"}
            /\ NameAt(i) \in DOMAIN files
            /\ owner[NameAt(i)] = i
            /\ files[NameAt(i)] = [k \in 1..log[i].wrote |-> ChunkSize]
            /\ \A j \in DOMAIN log :
                   (i < j /\ NameAt(j) = NameAt(i)) =>
                       /\ log[j].existed
                       /\ ~log[j].opened
                       /\ log[j].wrote = 0
                       /\ (log[j].kind = "duplicate") = (log[j].got /\ log[j].valid)
                       /\ log[j].kind \in {"duplicate", "connection", "skipping"}
            /\ (Running /\ FilenameOf[urls[idx]] = NameAt(i)) => ~cur.opened

\* a stream broke after one chunk was written, and a later URL of the same
\* name was skipped as a duplicate, the one chunk still on disk
C10_Witness ==
    \E i, j \in DOMAIN log :
        /\ i < j
        /\ log[i].opened /\ log[i].kind = "connection" /\ log[i].wrote = 1
        /\ NameAt(j) = NameAt(i)
        /\ log[j].kind = "duplicate"
        /\ files[NameAt(i)] = <<ChunkSize>>

====
